---- MODULE Spec2Model ----
(***************************************************************************)
(* State-machine model of backend/routes/events.js: the Express router of  *)
(* the event-booking backend (list, single lookup, my-events, attendee     *)
(* roster, create, delete) over the relational store (events, bookings,    *)
(* users).                                                                 *)
(*                                                                         *)
(* Strings that the code inspects (trim, LIKE, DATE(), numeric casts,      *)
(* route matching) are sequences of one-character strings.  Request body   *)
(* values are tagged: undefined, a string, or a number, so that JavaScript *)
(* truthiness and MySQL's string-to-number cast are computed, not assumed. *)
(* Columns the handlers only pass through (description, image_url,         *)
(* meeting_link, booking_date) are left out of the rows.                   *)
(***************************************************************************)
EXTENDS Integers, Sequences, FiniteSets, TLC

\* events, bookings  the rows of the two tables the routes read and write
\* nextEventId       the auto-increment counter of events.event_id
\* nextBookingId     the auto-increment counter of bookings.booking_id
\* pending           attendee-roster requests between their two queries
\* last              the response on its way out, with the request it answers
\* fkCascade         whether deleting an event deletes its bookings (the
\*                   foreign key is declared outside this file; both kinds
\*                   of schema are considered)
VARIABLES events, bookings, nextEventId, nextBookingId, pending, last, fkCascade

vars == <<events, bookings, nextEventId, nextBookingId, pending, last, fkCascade>>

----------------------------------------------------------------------------
(* Bounds of the model *)

\* at most this many events are ever inserted (auto-increment ids 1..MaxEvents)
MaxEvents == 2

\* at most this many booking rows are ever inserted
MaxBookings == 2

\* at most this many attendee-roster requests are between their two queries
MaxPending == 1

----------------------------------------------------------------------------
(* JavaScript and SQL value helpers *)

Undef == [t |-> "undef"]

Str(s) == [t |-> "str", v |-> s]

Num(n) == [t |-> "num", v |-> n]

\* JavaScript truthiness of a request value: undefined, "" and 0 are falsy
Truthy(x) ==
  CASE x.t = "undef" -> FALSE
    [] x.t = "str" -> x.v # <<>>
    [] x.t = "num" -> x.v # 0

Digits == {"0", "1", "2", "3", "4", "5", "6", "7", "8", "9"}

DigitVal(c) ==
  CASE c = "0" -> 0 [] c = "1" -> 1 [] c = "2" -> 2 [] c = "3" -> 3
    [] c = "4" -> 4 [] c = "5" -> 5 [] c = "6" -> 6 [] c = "7" -> 7
    [] c = "8" -> 8 [] c = "9" -> 9

RECURSIVE DigitsPrefix(_, _)
DigitsPrefix(s, acc) ==
  IF s = <<>> \/ Head(s) \notin Digits
    THEN acc
    ELSE DigitsPrefix(Tail(s), acc * 10 + DigitVal(Head(s)))

\* MySQL's cast of a string to a number: optional sign, leading digits, the
\* rest ignored; a string with no leading digits is 0
SqlStrToInt(s) ==
  IF s # <<>> /\ Head(s) = "-"
    THEN 0 - DigitsPrefix(Tail(s), 0)
    ELSE DigitsPrefix(s, 0)

\* the value a numeric column takes from a bound parameter
SqlToInt(x) ==
  CASE x.t = "num" -> x.v
    [] x.t = "str" -> SqlStrToInt(x.v)

\* the text a text column takes from a bound parameter; the validation lets
\* only non-empty strings reach the title and date columns
SqlText(x) == IF x.t = "str" THEN x.v ELSE <<>>

\* String.prototype.trim on the blanks the inputs contain
RECURSIVE TrimLeft(_)
TrimLeft(s) == IF s # <<>> /\ Head(s) = " " THEN TrimLeft(Tail(s)) ELSE s

RECURSIVE TrimRight(_)
TrimRight(s) ==
  IF s # <<>> /\ s[Len(s)] = " " THEN TrimRight(SubSeq(s, 1, Len(s) - 1)) ELSE s

Trim(s) == TrimRight(TrimLeft(s))

\* case folding of the default (case-insensitive) collation
Lower(c) ==
  CASE c = "L" -> "l" [] c = "O" -> "o" [] c = "Y" -> "y" [] c = "N" -> "n"
    [] c = "S" -> "s"
    [] OTHER -> c

\* SQL LIKE: % matches any run of characters, _ any one character
RECURSIVE LikeMatch(_, _)
LikeMatch(p, s) ==
  IF p = <<>> THEN s = <<>>
  ELSE IF Head(p) = "%"
    THEN LikeMatch(Tail(p), s) \/ (s # <<>> /\ LikeMatch(p, Tail(s)))
  ELSE IF s = <<>> THEN FALSE
  ELSE (Head(p) = "_" \/ Lower(Head(p)) = Lower(Head(s)))
       /\ LikeMatch(Tail(p), Tail(s))

\* length of the calendar-date prefix of a stored timestamp
DateLen == 2

\* SQL DATE(): the calendar-date component of a timestamp
DateOf(ts) == SubSeq(ts, 1, DateLen)

RECURSIVE SeqLess(_, _)
\* lexicographic order of timestamps (digits and the separator "T")
SeqLess(a, b) ==
  IF b = <<>> THEN FALSE
  ELSE IF a = <<>> THEN TRUE
  ELSE IF Head(a) = Head(b) THEN SeqLess(Tail(a), Tail(b))
  ELSE IF Head(a) \in Digits /\ Head(b) \in Digits
    THEN DigitVal(Head(a)) < DigitVal(Head(b))
  ELSE Head(a) \in Digits

----------------------------------------------------------------------------
(* Request inputs *)

\* the segment "my-events" and the segment "attendees"
SegMyEvents == <<"m", "y", "-", "e", "v", "e", "n", "t", "s">>

SegAttendees == <<"a", "t", "t", "e", "n", "d", "e", "e", "s">>

SegParam == <<":", "i", "d">>

\* the decimal path segment of an event id
IdSeg(n) ==
  CASE n = 1 -> <<"1">> [] n = 2 -> <<"2">> [] n = 3 -> <<"3">>
    [] n = 4 -> <<"4">> [] OTHER -> <<"9">>

\* ids a client asks for: every id the store can hold and one it cannot
IdSegs == {IdSeg(n) : n \in 1..(MaxEvents + 1)}

NoHeader == [present |-> FALSE, words |-> <<>>]

Bearer(tok) == [present |-> TRUE, words |-> <<"Bearer", tok>>]

\* Authorization headers, already split at the blank: absent, a scheme with
\* no token, a token that does not verify, and three tokens that do
Headers ==
  { NoHeader, [present |-> TRUE, words |-> <<"Bearer">>], Bearer("forged"),
    Bearer("tokA"), Bearer("tokB"), Bearer("tokAdmin") }

\* the callers that create events here: no credential, a bad one, two organizers
CreatorHeaders == { NoHeader, Bearer("forged"), Bearer("tokA"), Bearer("tokB") }

NoQuery == [location |-> Undef, date |-> Undef]

NoBody ==
  [ title |-> Undef, date |-> Undef, location |-> Undef, price |-> Undef,
    mode |-> Undef, capacity |-> Undef ]

Lyon == Str(<<"L", "y", "o", "n">>)

Oslo == Str(<<"O", "s", "l", "o">>)

\* request bodies of POST /events: the four invalid shapes, then a body that
\* relies on the defaults (no capacity, a falsy price), one with small values
\* as form strings, and one with a zero capacity and a negative price
CreateBodies ==
  { [NoBody EXCEPT !.date = Str(<<"0", "1", "T", "9">>)],
    [NoBody EXCEPT !.title = Str(<<>>), !.date = Str(<<"0", "1", "T", "9">>)],
    [NoBody EXCEPT !.title = Str(<<"Expo">>)],
    [NoBody EXCEPT !.title = Str(<<"Expo">>), !.date = Str(<<>>)],
    [NoBody EXCEPT !.title = Str(<<"Expo">>),
                   !.date = Str(<<"0", "1", "T", "9">>), !.location = Lyon,
                   !.price = Num(0)],
    [NoBody EXCEPT !.title = Str(<<"Expo">>),
                   !.date = Str(<<"0", "2", "T", "8">>), !.location = Oslo,
                   !.price = Str(<<"2", "0">>), !.mode = Str(<<"virtual">>),
                   !.capacity = Str(<<"1">>)],
    [NoBody EXCEPT !.title = Str(<<"Expo">>),
                   !.date = Str(<<"0", "1", "T", "7">>),
                   !.price = Num(0 - 3), !.capacity = Str(<<"0">>)] }

Request(method, path, header, query, body) ==
  [method |-> method, path |-> path, header |-> header, query |-> query,
   body |-> body]

\* err.message of a failed store query; "ok" stands for a query that succeeds
DbErrors == {"ER_LOCK_DEADLOCK", "ECONNREFUSED"}

DbOutcomes == DbErrors \cup {"ok"}

----------------------------------------------------------------------------
(* Responses *)

Response(status, body) == [status |-> status, body |-> body]

ErrorBody(msg) == [kind |-> "error", error |-> msg]

\* no response has been sent (the handler is between two queries)
NoResponse == Response(0, [kind |-> "none"])

\* what the last step did: the request, the response, the number of store
\* queries the handler issued for it, and (for a roster) whether the answer is
\* the one a single store state during the request would have given
Outcome(req, res, n) == [req |-> req, res |-> res, queries |-> n, atomic |-> TRUE]

\* no response is on the wire
Idle == Outcome(Request("NONE", <<>>, NoHeader, NoQuery, NoBody), NoResponse, 0)

----------------------------------------------------------------------------
(* authenticateToken and the router *)

\* jwt.verify: the identity a token decodes to, or an error
JwtVerify(token) ==
  CASE token = "tokA" -> [err |-> FALSE, user |-> [user_id |-> 1, role |-> "organizer"]]
    [] token = "tokB" -> [err |-> FALSE, user |-> [user_id |-> 2, role |-> "organizer"]]
    [] token = "tokAdmin" -> [err |-> FALSE, user |-> [user_id |-> 3, role |-> "admin"]]
    [] OTHER -> [err |-> TRUE, user |-> [user_id |-> 0, role |-> "none"]]

NoUser == [user_id |-> 0, role |-> "none"]

\* authenticateToken: either next() with req.user set, or a 401/403 response
authenticateToken(req) ==
  LET h == req.header
      hasToken == h.present /\ Len(h.words) >= 2 /\ h.words[2] # ""
  IN IF ~hasToken
       THEN [next |-> FALSE, user |-> NoUser,
             res |-> Response(401, ErrorBody("Missing token"))]
       ELSE IF JwtVerify(h.words[2]).err
         THEN [next |-> FALSE, user |-> NoUser,
               res |-> Response(403, ErrorBody("Invalid token"))]
         ELSE [next |-> TRUE, user |-> JwtVerify(h.words[2]).user,
               res |-> NoResponse]

\* the routes in the order the file registers them
Routes ==
  << [method |-> "GET", pattern |-> <<>>, handler |-> "list"],
     [method |-> "GET", pattern |-> <<SegParam>>, handler |-> "lookup"],
     [method |-> "GET", pattern |-> <<SegMyEvents>>, handler |-> "myEvents"],
     [method |-> "GET", pattern |-> <<SegParam, SegAttendees>>, handler |-> "attendees"],
     [method |-> "POST", pattern |-> <<>>, handler |-> "create"],
     [method |-> "DELETE", pattern |-> <<SegParam>>, handler |-> "delete"] >>

\* a pattern matches a path segment by segment; a ":name" segment matches any
PathMatches(pattern, path) ==
  /\ Len(pattern) = Len(path)
  /\ \A i \in 1..Len(pattern) :
       \/ Head(pattern[i]) = ":"
       \/ pattern[i] = path[i]

\* Express answers with the first registered route that matches
Dispatch(method, path) ==
  LET hits == { i \in 1..Len(Routes) :
                  Routes[i].method = method /\ PathMatches(Routes[i].pattern, path) }
  IN IF hits = {} THEN "none"
     ELSE Routes[CHOOSE i \in hits : \A j \in hits : i <= j].handler

----------------------------------------------------------------------------
(* The store's queries *)

\* the users table (static here: no route of this file writes it)
UsersTable ==
  { [user_id |-> 1, name |-> "Ann", email |-> "ann@x", role |-> "organizer"],
    [user_id |-> 2, name |-> "Bob", email |-> "bob@x", role |-> "organizer"],
    [user_id |-> 3, name |-> "Root", email |-> "root@x", role |-> "admin"],
    [user_id |-> 4, name |-> "Dan", email |-> "dan@x", role |-> "attendee"] }

\* whether the ORDER BY clause puts row a strictly before row b
OrderedBefore(order, a, b) ==
  CASE order = "date ASC" -> SeqLess(a.date, b.date)
    [] order = "date DESC" -> SeqLess(b.date, a.date)
    [] OTHER -> FALSE

\* every order of the rows of S that the ORDER BY clause allows: rows with
\* equal keys, and rows of a query without ORDER BY, come in any order
Orderings(S, order) ==
  { s \in [1..Cardinality(S) -> S] :
      \A i, j \in 1..Cardinality(S) :
        i < j => (s[i] # s[j] /\ ~OrderedBefore(order, s[j], s[i])) }

\* the filter is applied only when given and not blank
FilterGiven(f) == Truthy(f) /\ Trim(f.v) # <<>>

\* WHERE 1=1 [AND e.location LIKE ?] [AND DATE(e.date) = ?]
MatchesFilters(e, location, date) ==
  /\ FilterGiven(location) =>
       (e.location.t = "str"
        /\ LikeMatch(<<"%">> \o location.v \o <<"%">>, e.location.v))
  /\ FilterGiven(date) => DateOf(e.date) = date.v

\* COUNT(b.booking_id) over the LEFT JOIN of one event to its bookings
BookingCount(e, bks) == Cardinality({ b \in bks : b.event_id = e.event_id })

\* a listing that hides overbooking: the computed seats clamped at zero
AvailableSeatsClamped(e, bks) ==
  IF e.capacity - BookingCount(e, bks) < 0 THEN 0 ELSE e.capacity - BookingCount(e, bks)

\* (e.capacity - COUNT(b.booking_id)) AS available_seats
AvailableSeats(e, bks) == e.capacity - BookingCount(e, bks)

\* one result row of the listing: e.* with the computed column, which takes
\* the place of the stored column of the same name in the row object
ListRow(e, bks) == [e EXCEPT !.available_seats = AvailableSeats(e, bks)]

\* the listing query: the possible result sequences
ListQuery(evs, bks, location, date) ==
  Orderings({ ListRow(e, bks) : e \in { x \in evs : MatchesFilters(x, location, date) } },
            "date ASC")

\* SELECT * FROM events WHERE event_id = ?
LookupQuery(evs, id) == { e \in evs : e.event_id = SqlStrToInt(id) }

\* SELECT * FROM events WHERE organizer_id = ? ORDER BY date DESC
MyEventsQuery(evs, uid) ==
  Orderings({ e \in evs : e.organizer_id = uid }, "date DESC")

\* an ownership check that forgets the organizer
OwnedEventQueryByIdOnly(evs, id, uid) ==
  { e \in evs : e.event_id = SqlStrToInt(id) }

\* SELECT * FROM events WHERE event_id = ? AND organizer_id = ?
OwnedEventQuery(evs, id, uid) ==
  { e \in evs : e.event_id = SqlStrToInt(id) /\ e.organizer_id = uid }

\* the booking rows of one event that join to a user
JoinedBookings(bks, id) ==
  { b \in bks : /\ b.event_id = SqlStrToInt(id)
                /\ \E u \in UsersTable : u.user_id = b.user_id }

\* SELECT u.name, u.email, b.status of one joined booking
AttendeeRow(b) ==
  LET u == CHOOSE x \in UsersTable : x.user_id = b.user_id
  IN [name |-> u.name, email |-> u.email, status |-> b.status]

\* the attendee query: the possible result sequences
AttendeeQuery(bks, id) ==
  { [i \in 1..Cardinality(JoinedBookings(bks, id)) |-> AttendeeRow(s[i])] :
      s \in Orderings(JoinedBookings(bks, id), "none") }

\* a revenue that forgets the number of attendees
TotalRevenuePriceOnly(attendees, event) == event.price

\* attendees.length * event[0].price
TotalRevenue(attendees, event) == Len(attendees) * event.price

\* a delete that lets any authenticated caller through
DeleteQueryAnyCaller(evs, id, user) ==
  { e \in evs : e.event_id = SqlStrToInt(id) }

\* the rows DELETE removes: by id and owner, or by id alone for an admin
DeleteQuery(evs, id, user) ==
  IF user.role = "admin"
    THEN { e \in evs : e.event_id = SqlStrToInt(id) }
    ELSE { e \in evs : e.event_id = SqlStrToInt(id) /\ e.organizer_id = user.user_id }

DefaultCapacity == 100

DefaultPrice == 0

\* capacity || 100
FinalCapacity(body) ==
  IF Truthy(body.capacity) THEN body.capacity ELSE Num(DefaultCapacity)

\* price || 0
FinalPrice(body) == IF Truthy(body.price) THEN body.price ELSE Num(DefaultPrice)

\* mode || 'physical'
FinalMode(body) == IF Truthy(body.mode) THEN body.mode ELSE Str(<<"physical">>)

\* a validation that refuses only when both are missing
MissingRequiredBoth(body) == ~Truthy(body.title) /\ ~Truthy(body.date)

\* !title || !date
MissingRequired(body) == ~Truthy(body.title) \/ ~Truthy(body.date)

\* a row whose stored seats are the default whatever the capacity
InitialSeatsDefault(body) == DefaultCapacity

\* the stored available_seats of a new row: finalCapacity again
InitialSeats(body) == SqlToInt(FinalCapacity(body))

\* the row INSERT INTO events stores
InsertRow(body, user, id) ==
  [ event_id |-> id, title |-> SqlText(body.title), date |-> SqlText(body.date),
    location |-> body.location, price |-> SqlToInt(FinalPrice(body)),
    mode |-> FinalMode(body).v, capacity |-> SqlToInt(FinalCapacity(body)),
    organizer_id |-> user.user_id, available_seats |-> InitialSeats(body) ]

----------------------------------------------------------------------------
(* The handlers *)

\* a step that answers a request and leaves the store as it is
Reply(req, res, n) ==
  /\ last' = Outcome(req, res, n)
  /\ UNCHANGED <<events, bookings, nextEventId, nextBookingId, pending, fkCascade>>

\* the bookings of an event, as a pending roster request sees them now
Snapshot(evs, bks, event) ==
  IF event \in evs THEN {{ b \in bks : b.event_id = event.event_id }} ELSE {}

\* every pending roster request records the store state it has lived through
Observe(evs, bks) ==
  { [p EXCEPT !.seen = @ \cup Snapshot(evs, bks, p.event)] : p \in pending }

\* router.get("/")
ListHandler(req, fail) ==
  IF fail # "ok"
    THEN Reply(req, Response(500, ErrorBody("Failed to fetch events")), 1)
    ELSE \E rows \in ListQuery(events, bookings, req.query.location, req.query.date) :
           Reply(req, Response(200, [kind |-> "rows", rows |-> rows]), 1)

\* router.get("/:id")
LookupHandler(req, fail) ==
  LET found == LookupQuery(events, req.path[1])
  IN IF fail # "ok"
       THEN Reply(req, Response(500, ErrorBody(fail)), 1)
       ELSE IF found = {}
         THEN Reply(req, Response(404, ErrorBody("Event not found")), 1)
         ELSE \E e \in found :
                Reply(req, Response(200, [kind |-> "event", event |-> e]), 1)

\* router.get("/my-events", authenticateToken, ...)
MyEventsHandler(req, fail) ==
  LET auth == authenticateToken(req)
  IN IF ~auth.next
       THEN Reply(req, auth.res, 0)
       ELSE IF fail # "ok"
         THEN Reply(req, Response(500, ErrorBody(fail)), 1)
         ELSE \E rows \in MyEventsQuery(events, auth.user.user_id) :
                Reply(req, Response(200, [kind |-> "rows", rows |-> rows]), 1)

\* router.get("/:id/attendees", authenticateToken, ...) up to its first query
AttendeesHandler(req, fail) ==
  LET auth == authenticateToken(req)
      owned == OwnedEventQuery(events, req.path[1], auth.user.user_id)
  IN IF ~auth.next
       THEN Reply(req, auth.res, 0)
       ELSE IF fail # "ok"
         THEN Reply(req, Response(500, ErrorBody("Server error fetching attendees")), 1)
         ELSE IF owned = {}
           THEN Reply(req, Response(403, ErrorBody("Unauthorized or Event not found")), 1)
           ELSE /\ Cardinality(pending) < MaxPending
                /\ \E e \in owned :
                     pending' = pending \cup
                       { [req |-> req, user |-> auth.user, event |-> e,
                          seen |-> Snapshot(events, bookings, e)] }
                /\ UNCHANGED <<events, bookings, nextEventId, nextBookingId, fkCascade,
                               last>>

\* router.get("/:id/attendees") from its second query to the response
AttendeesRespond(p, fail) ==
  /\ pending' = pending \ {p}
  /\ UNCHANGED <<events, bookings, nextEventId, nextBookingId, fkCascade>>
  /\ IF fail # "ok"
       THEN last' = Outcome(p.req,
                      Response(500, ErrorBody("Server error fetching attendees")), 2)
       ELSE \E attendees \in AttendeeQuery(bookings, p.req.path[1]) :
              last' = [ Outcome(p.req,
                          Response(200, [kind |-> "roster", event |-> p.event,
                                         attendees |-> attendees,
                                         total_revenue |-> TotalRevenue(attendees, p.event)]),
                          2)
                        EXCEPT !.atomic = JoinedBookings(bookings, p.req.path[1]) \in p.seen ]

\* router.post("/", authenticateToken, upload.single("image"), ...)
CreateHandler(req, fail) ==
  LET auth == authenticateToken(req)
      row == InsertRow(req.body, auth.user, nextEventId)
  IN IF ~auth.next
       THEN Reply(req, auth.res, 0)
       ELSE IF MissingRequired(req.body)
         THEN Reply(req, Response(400, ErrorBody("Title and Date are required")), 0)
         ELSE IF fail # "ok"
           THEN Reply(req, Response(500, ErrorBody("Server error creating event")), 1)
           ELSE /\ nextEventId <= MaxEvents
                /\ events' = events \cup {row}
                /\ nextEventId' = nextEventId + 1
                /\ pending' = Observe(events', bookings)
                /\ last' = Outcome(req,
                             Response(201, [kind |-> "created",
                                            message |-> "Event created successfully",
                                            eventId |-> nextEventId]),
                             1)
                /\ UNCHANGED <<bookings, nextBookingId, fkCascade>>

\* router.delete("/:id", authenticateToken, ...)
DeleteHandler(req, fail) ==
  LET auth == authenticateToken(req)
      gone == DeleteQuery(events, req.path[1], auth.user)
  IN IF ~auth.next
       THEN Reply(req, auth.res, 0)
       ELSE IF fail # "ok"
         THEN Reply(req, Response(500, ErrorBody(fail)), 1)
         ELSE IF gone = {}
           THEN Reply(req, Response(404, ErrorBody("Event not found or unauthorized")), 1)
           ELSE /\ events' = events \ gone
                /\ bookings' = IF fkCascade
                                 THEN { b \in bookings :
                                          \A e \in gone : b.event_id # e.event_id }
                                 ELSE bookings
                /\ pending' = Observe(events', bookings')
                /\ last' = Outcome(req,
                             Response(200, [kind |-> "message",
                                            message |-> "Event deleted successfully"]),
                             1)
                /\ UNCHANGED <<nextEventId, nextBookingId, fkCascade>>

\* the router hands the request to the first route that matches it
Serve(req, fail) ==
  LET h == Dispatch(req.method, req.path)
  IN CASE h = "list" -> ListHandler(req, fail)
       [] h = "lookup" -> LookupHandler(req, fail)
       [] h = "myEvents" -> MyEventsHandler(req, fail)
       [] h = "attendees" -> AttendeesHandler(req, fail)
       [] h = "create" -> CreateHandler(req, fail)
       [] h = "delete" -> DeleteHandler(req, fail)
       [] OTHER -> FALSE

----------------------------------------------------------------------------
(* The requests clients send, and the bookings other routes insert *)

BookingStatuses == {"confirmed", "cancelled"}

BookingUsers == {4}

ListQueries ==
  { NoQuery,
    [location |-> Str(<<" ">>), date |-> Str(<<" ">>)],
    [location |-> Str(<<"y", "O">>), date |-> Undef],
    [location |-> Str(<<"_", "s">>), date |-> Str(<<"0", "2">>)],
    [location |-> Undef, date |-> Str(<<"0", "1">>)],
    [location |-> Str(<<"x">>), date |-> Str(<<>>)] }

GetEvents ==
  /\ last = Idle
  /\ \E q \in ListQueries, fail \in DbOutcomes :
    Serve(Request("GET", <<>>, NoHeader, q, NoBody), fail)

GetEventById ==
  /\ last = Idle
  /\ \E id \in IdSegs, fail \in DbOutcomes :
    Serve(Request("GET", <<id>>, NoHeader, NoQuery, NoBody), fail)

GetMyEvents ==
  /\ last = Idle
  /\ \E h \in Headers, fail \in DbOutcomes :
    Serve(Request("GET", <<SegMyEvents>>, h, NoQuery, NoBody), fail)

GetAttendees ==
  /\ last = Idle
  /\ \E id \in IdSegs, h \in Headers, fail \in DbOutcomes :
    Serve(Request("GET", <<id, SegAttendees>>, h, NoQuery, NoBody), fail)

AttendeesSecondQuery ==
  /\ last = Idle
  /\ \E p \in pending, fail \in DbOutcomes : AttendeesRespond(p, fail)

PostEvent ==
  /\ last = Idle
  /\ \E h \in CreatorHeaders, body \in CreateBodies, fail \in DbOutcomes :
    Serve(Request("POST", <<>>, h, NoQuery, body), fail)

DeleteEvent ==
  /\ last = Idle
  /\ \E id \in IdSegs, h \in Headers, fail \in DbOutcomes :
    Serve(Request("DELETE", <<id>>, h, NoQuery, NoBody), fail)

\* a booking row inserted by the booking routes for an event that exists
AddBooking ==
  /\ last = Idle
  /\ nextBookingId <= MaxBookings
  /\ \E e \in events, u \in BookingUsers, st \in BookingStatuses :
       bookings' = bookings \cup
         { [booking_id |-> nextBookingId, event_id |-> e.event_id,
            user_id |-> u, status |-> st] }
  /\ nextBookingId' = nextBookingId + 1
  /\ pending' = Observe(events, bookings')
  /\ UNCHANGED <<events, nextEventId, fkCascade, last>>

\* res.json(...): the response leaves the server; a handler that has answered
\* touches nothing afterwards
Deliver ==
  /\ last # Idle
  /\ last' = Idle
  /\ UNCHANGED <<events, bookings, nextEventId, nextBookingId, pending, fkCascade>>

Init ==
  /\ events = {}
  /\ bookings = {}
  /\ nextEventId = 1
  /\ nextBookingId = 1
  /\ pending = {}
  /\ last = Idle
  /\ fkCascade \in BOOLEAN

Next ==
  \/ GetEvents
  \/ GetEventById
  \/ GetMyEvents
  \/ GetAttendees
  \/ AttendeesSecondQuery
  \/ PostEvent
  \/ DeleteEvent
  \/ AddBooking
  \/ Deliver

Spec == Init /\ [][Next]_vars

----------------------------------------------------------------------------
(* Vocabulary of the properties *)

ReqIsList(r) == r.method = "GET" /\ r.path = <<>>

ReqIsMyEvents(r) == r.method = "GET" /\ r.path = <<SegMyEvents>>

ReqIsById(r) == r.method = "GET" /\ Len(r.path) = 1 /\ r.path # <<SegMyEvents>>

ReqIsAttendees(r) == r.method = "GET" /\ Len(r.path) = 2

ReqIsCreate(r) == r.method = "POST"

ReqIsDelete(r) == r.method = "DELETE"

ReqIsProtected(r) ==
  ReqIsMyEvents(r) \/ ReqIsAttendees(r) \/ ReqIsCreate(r) \/ ReqIsDelete(r)

ValidTokens == {"tokA", "tokB", "tokAdmin"}

NoCredential(r) == ~r.header.present \/ Len(r.header.words) < 2

InvalidCredential(r) == ~NoCredential(r) /\ r.header.words[2] \notin ValidTokens

ValidCredential(r) == ~NoCredential(r) /\ r.header.words[2] \in ValidTokens

\* the identity a valid credential carries
Caller(r) == JwtVerify(r.header.words[2]).user

\* the event id a path segment of the requests spells
IdOfSeg(seg) == CHOOSE n \in 1..(MaxEvents + 1) : IdSeg(n) = seg

BookingsOf(id) == { b \in bookings : b.event_id = id }

Answered == last # Idle

----------------------------------------------------------------------------
(* C1 *)

\* C1: a successful GET /events returns each stored event that matches the
\* filters exactly once and nothing else, each row being the stored row with
\* available_seats = capacity - (number of booking rows of that event, of any
\* status), never clamped at zero.
C1_ListAvailableSeats ==
  (ReqIsList(last.req) /\ last.res.status = 200) =>
    LET rows == last.res.body.rows
        q == last.req.query
        matching == { e \in events : MatchesFilters(e, q.location, q.date) }
    IN /\ \A e \in matching :
            Cardinality({ i \in 1..Len(rows) : rows[i].event_id = e.event_id }) = 1
       /\ \A i \in 1..Len(rows) :
            \E e \in matching :
              rows[i] = [e EXCEPT !.available_seats =
                           e.capacity - Cardinality(BookingsOf(e.event_id))]
       /\ \A i, j \in 1..Len(rows) :
            i < j => ~SeqLess(rows[j].date, rows[i].date)

\* a listing that shows an overbooked event (negative seats) next to an event
\* without bookings (seats = capacity)
C1_Witness ==
  /\ ReqIsList(last.req) /\ last.res.status = 200
  /\ \E i, j \in 1..Len(last.res.body.rows) :
       /\ last.res.body.rows[i].available_seats < 0
       /\ BookingsOf(last.res.body.rows[j].event_id) = {}
       /\ last.res.body.rows[j].available_seats = last.res.body.rows[j].capacity

----------------------------------------------------------------------------
(* C2 *)

\* C2: when the store answers, DELETE /events/:id by an authenticated caller
\* removes the event with that id if and only if the caller is its organizer
\* or an admin; it removes exactly that row and answers 200, and otherwise
\* answers the collapsed 404 and leaves the events as they were.
C2_DeleteOwnerOrAdmin ==
  [][ (last = Idle /\ ReqIsDelete(last'.req) /\ ValidCredential(last'.req)
       /\ last'.res.status # 500) =>
        LET u == Caller(last'.req)
            id == IdOfSeg(last'.req.path[1])
            target == { e \in events :
                          /\ e.event_id = id
                          /\ (e.organizer_id = u.user_id \/ u.role = "admin") }
        IN /\ events' = events \ target
           /\ Cardinality(target) <= 1
           /\ target # {} => last'.res.status = 200
           /\ target = {} =>
                last'.res = Response(404, ErrorBody("Event not found or unauthorized")) ]_vars

\* an admin has deleted an event (no admin owns one here) and another remains
C2_Witness ==
  /\ ReqIsDelete(last.req) /\ ValidCredential(last.req)
  /\ Caller(last.req).role = "admin"
  /\ last.res.status = 200
  /\ events # {}

----------------------------------------------------------------------------
(* C3 *)

\* C3: GET /events/my-events with a valid credential for u is answered, when
\* the store answers, with exactly the stored events whose organizer_id = u,
\* by date descending.
C3_MyEventsListsOwned ==
  (ReqIsMyEvents(last.req) /\ ValidCredential(last.req) /\ last.res.status # 500) =>
    /\ last.res.status = 200
    /\ last.res.body.kind = "rows"
    /\ LET rows == last.res.body.rows
           mine == { e \in events : e.organizer_id = Caller(last.req).user_id }
       IN /\ { rows[i] : i \in 1..Len(rows) } = mine
          /\ Len(rows) = Cardinality(mine)
          /\ \A i, j \in 1..Len(rows) :
               i < j => ~SeqLess(rows[i].date, rows[j].date)

----------------------------------------------------------------------------
(* C4 *)

\* C4: for an authenticated caller u, GET /events/:id/attendees answers the
\* same 403 (same body) whether no event has that id or the event belongs to
\* somebody else, and a roster that is returned is that of an event of u:
\* its event row has the requested id and organizer_id = u, and its
\* attendees are the bookings of that id.
C4_RosterForbiddenUniform ==
  (ReqIsAttendees(last.req) /\ ValidCredential(last.req)) =>
    LET u == Caller(last.req)
        id == IdOfSeg(last.req.path[1])
        owned == \E e \in events : e.event_id = id /\ e.organizer_id = u.user_id
    IN /\ (last.queries = 1 /\ last.res.status # 500) =>
            /\ ~owned
            /\ last.res = Response(403, ErrorBody("Unauthorized or Event not found"))
       /\ last.res.status = 200 =>
            /\ last.res.body.event.event_id = id
            /\ last.res.body.event.organizer_id = u.user_id
            /\ Len(last.res.body.attendees) = Cardinality(BookingsOf(id))

\* the 403 was given for an event that exists and has bookings, to a caller
\* who is not its organizer
C4_Witness ==
  /\ ReqIsAttendees(last.req) /\ ValidCredential(last.req)
  /\ last.res.status = 403
  /\ \E e \in events :
       /\ e.event_id = IdOfSeg(last.req.path[1])
       /\ e.organizer_id # Caller(last.req).user_id
       /\ BookingsOf(e.event_id) # {}

----------------------------------------------------------------------------
(* C5 *)

\* C5: POST /events by an authenticated caller with title or date missing or
\* empty answers 400 and inserts nothing; with both present, when the store
\* answers, it answers 201 and inserts exactly one row, whose organizer_id is
\* the caller's user_id.
C5_CreateRequiresTitleAndDate ==
  [][ (last = Idle /\ ReqIsCreate(last'.req) /\ ValidCredential(last'.req)) =>
        LET b == last'.req.body
            missing == b.title \in {Undef, Str(<<>>)} \/ b.date \in {Undef, Str(<<>>)}
        IN /\ missing => (last'.res.status = 400 /\ events' = events)
           /\ last'.res.status = 400 => missing
           /\ (~missing /\ last'.res.status # 500) =>
                /\ last'.res.status = 201
                /\ \E row \in events' :
                     /\ row \notin events
                     /\ events' = events \cup {row}
                     /\ row.organizer_id = Caller(last'.req).user_id
                     /\ row.event_id = last'.res.body.eventId ]_vars

\* a create was refused with 400 for an empty date although the title was given
C5_Witness ==
  /\ ReqIsCreate(last.req) /\ ValidCredential(last.req)
  /\ last.res.status = 400
  /\ last.req.body.title = Str(<<"Expo">>)
  /\ last.req.body.date = Str(<<>>)
  /\ events # {}

----------------------------------------------------------------------------
(* C6 *)

\* C6: a 500 response carries a fixed generic message: the store error's own
\* message is never in the body.
C6_GenericInternalError ==
  last.res.status = 500 => last.res.body.error \notin DbErrors

----------------------------------------------------------------------------
(* C7 *)

\* C7: a request for a protected operation (my-events, attendees, create,
\* delete) without a bearer credential is answered 401, one with an invalid
\* credential 403, and in both cases no store query has run.
C7_ProtectedNeedCredential ==
  (Answered /\ ReqIsProtected(last.req)) =>
    /\ NoCredential(last.req) => (last.res.status = 401 /\ last.queries = 0)
    /\ InvalidCredential(last.req) => (last.res.status = 403 /\ last.queries = 0)

----------------------------------------------------------------------------
(* C8 *)

\* C8: every stored event has capacity > 0 and price >= 0; a create whose
\* capacity is unspecified or falsy stores capacity 100, and one whose price is
\* unspecified stores price 0.
C8_CapacityAndPriceRanges ==
  /\ \A e \in events : e.capacity > 0 /\ e.price >= 0
  /\ (ReqIsCreate(last.req) /\ last.res.status = 201) =>
       \A e \in events :
         e.event_id = last.res.body.eventId =>
           /\ last.req.body.capacity \in {Undef, Str(<<>>), Num(0)} => e.capacity = 100
           /\ last.req.body.price = Undef => e.price = 0

----------------------------------------------------------------------------
(* C9 *)

\* C9: every stored event's available_seats equals its capacity; GET
\* /events/:id returns the stored row, so available_seats = capacity however
\* many bookings exist; and the value a listing shows for an event differs
\* from the stored one exactly when the event has at least one booking.
C9_StoredSeatsStayAtCapacity ==
  /\ \A e \in events : e.available_seats = e.capacity
  /\ (ReqIsById(last.req) /\ last.res.status = 200) =>
       /\ last.res.body.event \in events
       /\ last.res.body.event.event_id = IdOfSeg(last.req.path[1])
       /\ last.res.body.event.available_seats = last.res.body.event.capacity
  /\ (ReqIsList(last.req) /\ last.res.status = 200) =>
       \A i \in 1..Len(last.res.body.rows) :
         \E e \in events :
           /\ e.event_id = last.res.body.rows[i].event_id
           /\ (last.res.body.rows[i].available_seats # e.available_seats)
                <=> (BookingsOf(e.event_id) # {})

\* the single lookup has returned an event that has a booking, and whose
\* capacity is not the default
C9_Witness ==
  /\ ReqIsById(last.req) /\ last.res.status = 200
  /\ BookingsOf(last.res.body.event.event_id) # {}
  /\ last.res.body.event.capacity # DefaultCapacity

----------------------------------------------------------------------------
(* C10 *)

\* C10 as claimed: every successful roster corresponds to a single store
\* state during the request, in which the event existed, was the caller's,
\* and had exactly the returned attendees.
C10_RosterIsOneSnapshot ==
  (ReqIsAttendees(last.req) /\ last.res.status = 200) => last.atomic

\* C10 as amended: a successful roster returns the event row the ownership
\* query read (the caller's, with the requested id) and the bookings that
\* event id has when the attendee query runs, with total_revenue = (number of
\* returned attendees) * (price of the returned event); the two reads are one
\* store state whenever the event still exists at the attendee query.
C10_RosterTwoReads ==
  (ReqIsAttendees(last.req) /\ last.res.status = 200) =>
    LET body == last.res.body
        now == BookingsOf(IdOfSeg(last.req.path[1]))
    IN /\ body.total_revenue = Len(body.attendees) * body.event.price
       /\ Len(body.attendees) = Cardinality(now)
       /\ \A st \in BookingStatuses :
            Cardinality({ i \in 1..Len(body.attendees) : body.attendees[i].status = st })
              = Cardinality({ b \in now : b.status = st })
       /\ body.event \in events => last.atomic

\* a roster with two attendees and a non-zero revenue was returned for an
\* event that still exists
C10_Witness ==
  /\ ReqIsAttendees(last.req) /\ last.res.status = 200
  /\ Len(last.res.body.attendees) = 2
  /\ last.res.body.total_revenue > 0
  /\ last.res.body.event \in events

====
